---- MODULE Spec2Model ----
(***************************************************************************)
(* Model of Txt2xlsx.py: conversion of delimited instrument logs           *)
(* (.txt/.csv/.his) into a trimmed, sampled spreadsheet.                   *)
(*                                                                         *)
(* Strings are sequences of one-character strings, so that strip, split,   *)
(* replace and count are computed character by character as Python does.   *)
(* A DataFrame is a record [columns, rows]: the labels in header order and *)
(* the rows in index order (a RangeIndex 0..n-1; row i is rows[i+1]).      *)
(* None is -1 where the code holds an index, NoneStr where it holds a      *)
(* string or a list.                                                       *)
(***************************************************************************)
EXTENDS Integers, Sequences, FiniteSets, TLC

VARIABLES
  pc,          \* position in main(), or in the function under check
  cell,        \* a cell string handed to the Numeric Normalizer
  norm,        \* _normalize_number_str(cell)
  renorm,      \* _normalize_number_str(norm)
  num,         \* pd.to_numeric of norm
  path,        \* the path get_input_path_from_user returned
  k,           \* the sampling stride get_sampling_k returned
  lines,       \* the lines of the input file
  out_file,    \* the file at the output path: "absent", "old", "new", "partial"
  header_idx,  \* find_header_index: index of the header line
  header,      \* find_header_index: the fields from 'Date' onwards
  delimiter,   \* find_header_index: the delimiter that matched
  start_col,   \* find_header_index: position of 'Date'
  data_lines,  \* lines[header_idx + 1 :]
  raw_df,      \* df as build_dataframe_from_lines returned it
  df,          \* df as merge_date_time_if_present returned it
  offset,      \* offset_from_right
  start_idx,   \* find_trim_indices_by_offset: first row of the window
  end_idx,     \* find_trim_indices_by_offset: last row of the window
  used_col,    \* find_trim_indices_by_offset: the column used
  out_df,      \* truncated.iloc[::k].reset_index(drop=True)
  checks,      \* the checks of main() passed so far, in the order passed
  err          \* the reason main() returned early, "" for none

normVars == <<cell, norm, renorm, num>>

fileVars == <<path, k, lines, out_file>>

headerVars == <<header_idx, header, delimiter, start_col>>

frameVars == <<raw_df, df>>

trimVars == <<offset, start_idx, end_idx, used_col>>

vars == <<pc, normVars, fileVars, headerVars, data_lines, frameVars, trimVars,
          out_df, checks, err>>

(***************************************************************************)
(* Bounds of the model.                                                    *)
(***************************************************************************)
MaxLen == 4

MaxLines == 3

MaxRows == 3

MaxK == 2

(***************************************************************************)
(* Characters and strings.                                                 *)
(***************************************************************************)
Digits == {"0", "1", "2", "3", "4", "5", "6", "7", "8", "9"}

Whitespace == {" ", "\t"}

DigitVal(c) ==
  CASE c = "0" -> 0 [] c = "1" -> 1 [] c = "2" -> 2 [] c = "3" -> 3
    [] c = "4" -> 4 [] c = "5" -> 5 [] c = "6" -> 6 [] c = "7" -> 7
    [] c = "8" -> 8 [] c = "9" -> 9

\* All strings of length at most n over the alphabet A.
StringsUpTo(A, n) == UNION {[1..m -> A] : m \in 0..n}

RECURSIVE LStrip(_)
LStrip(s) ==
  IF s # <<>> /\ Head(s) \in Whitespace THEN LStrip(Tail(s)) ELSE s

RECURSIVE RStrip(_)
RStrip(s) ==
  IF s # <<>> /\ s[Len(s)] \in Whitespace
    THEN RStrip(SubSeq(s, 1, Len(s) - 1))
    ELSE s

\* str.strip()
Strip(s) == RStrip(LStrip(s))

\* str.count(c)
Count(s, c) == Cardinality({i \in 1..Len(s) : s[i] = c})

\* c in s
Contains(s, c) == \E i \in 1..Len(s) : s[i] = c

\* str.replace(c, '')
RemoveChar(s, c) == SelectSeq(s, LAMBDA x : x # c)

\* str.replace(c, d) for single characters
ReplaceChar(s, c, d) == [i \in 1..Len(s) |-> IF s[i] = c THEN d ELSE s[i]]

(***************************************************************************)
(* Numeric Normalizer.                                                     *)
(***************************************************************************)
\* Mutant: the thousands points are stripped without requiring a comma.
NormalizeNoCommaTest(s) ==
  LET t  == Strip(s)
      t2 == IF Count(t, ".") > 1 THEN RemoveChar(t, ".") ELSE t
  IN  ReplaceChar(t2, ",", ".")

_normalize_number_str(s) ==
  LET t  == Strip(s)
      t2 == IF Count(t, ".") > 1 /\ Contains(t, ",") THEN RemoveChar(t, ".") ELSE t
  IN  ReplaceChar(t2, ",", ".")

\* A numeric value m / 10^s, or absent (NaN) when ok is FALSE.
NaN == [ok |-> FALSE, m |-> 0, s |-> 0]

Number(m, s) == [ok |-> TRUE, m |-> m, s |-> s]

RECURSIVE DigitsValue(_)
DigitsValue(ds) ==
  IF ds = <<>> THEN 0
  ELSE 10 * DigitsValue(SubSeq(ds, 1, Len(ds) - 1)) + DigitVal(ds[Len(ds)])

RECURSIVE Pow10(_)
Pow10(n) == IF n = 0 THEN 1 ELSE 10 * Pow10(n - 1)

\* Two numeric values are the same number.
NumEq(a, b) == a.ok /\ b.ok /\ a.m * Pow10(b.s) = b.m * Pow10(a.s)

\* pd.to_numeric(..., errors='coerce') of one string: an optional sign, then
\* digits with at most one point and at least one digit; anything else is NaN.
to_numeric(t) ==
  LET signed == t # <<>> /\ Head(t) \in {"+", "-"}
      body   == IF signed THEN Tail(t) ELSE t
      sign   == IF signed /\ Head(t) = "-" THEN -1 ELSE 1
      ds     == RemoveChar(body, ".")
      pts    == {i \in 1..Len(body) : body[i] = "."}
  IN  IF /\ ds # <<>>
         /\ \A i \in 1..Len(ds) : ds[i] \in Digits
         /\ Cardinality(pts) <= 1
      THEN Number(sign * DigitsValue(ds),
                  IF pts = {} THEN 0 ELSE Len(body) - (CHOOSE i \in pts : TRUE))
      ELSE NaN

\* One element of _to_numeric_series: normalize, then parse.
ToNumericCell(x) == to_numeric(_normalize_number_str(x))

\* mask = ser_num.notna() & (ser_num != 0)
NonZero(v) == v.ok /\ v.m # 0

(***************************************************************************)
(* Header Locator and Table Builder.                                       *)
(***************************************************************************)
S_Date == <<"D", "a", "t", "e">>

\* None where the code returns a string or a list: no string of characters.
NoneStr == <<"None">>

NoneChar == "None"

EmptyFrame == [columns |-> <<>>, rows |-> <<>>]

\* csv.reader's state machine (dialect excel: quotechar '"', doublequote, not
\* strict) over one line without line breaks.  st is the parser state, field
\* the field being collected, fields the fields saved so far.
RECURSIVE CsvParse(_, _, _, _, _)
CsvParse(s, d, st, field, fields) ==
  IF s = <<>>
    THEN IF st = "START_RECORD" THEN fields ELSE Append(fields, field)
    ELSE
      LET c == Head(s)
          r == Tail(s)
      IN  CASE st \in {"START_RECORD", "START_FIELD"} ->
                 IF c = "\"" THEN CsvParse(r, d, "IN_QUOTED_FIELD", <<>>, fields)
                 ELSE IF c = d THEN CsvParse(r, d, "START_FIELD", <<>>, Append(fields, <<>>))
                 ELSE CsvParse(r, d, "IN_FIELD", <<c>>, fields)
            [] st = "IN_FIELD" ->
                 IF c = d THEN CsvParse(r, d, "START_FIELD", <<>>, Append(fields, field))
                 ELSE CsvParse(r, d, "IN_FIELD", Append(field, c), fields)
            [] st = "IN_QUOTED_FIELD" ->
                 IF c = "\"" THEN CsvParse(r, d, "QUOTE_IN_QUOTED_FIELD", field, fields)
                 ELSE CsvParse(r, d, "IN_QUOTED_FIELD", Append(field, c), fields)
            [] st = "QUOTE_IN_QUOTED_FIELD" ->
                 IF c = "\"" THEN CsvParse(r, d, "IN_QUOTED_FIELD", Append(field, c), fields)
                 ELSE IF c = d THEN CsvParse(r, d, "START_FIELD", <<>>, Append(fields, field))
                 ELSE CsvParse(r, d, "IN_FIELD", Append(field, c), fields)

\* parts = [p.strip() for p in next(csv.reader([line], delimiter=d))]
SplitLine(line, d) ==
  LET parts == CsvParse(line, d, "START_RECORD", <<>>, <<>>)
  IN  [i \in 1..Len(parts) |-> Strip(parts[i])]

\* x in parts
InList(parts, x) == \E i \in 1..Len(parts) : parts[i] = x

\* parts.index(x), 0-based
ListIndex(parts, x) ==
  (CHOOSE i \in 1..Len(parts) :
     parts[i] = x /\ \A j \in 1..(i - 1) : parts[j] # x) - 1

\* The delimiters in the order they are tried.
Delimiters == <<"\t", ";", ",">>

NoHeader ==
  [idx |-> -1, header |-> NoneStr, delimiter |-> NoneChar, start_col |-> -1]

\* Mutant: the last 'Date' field of the line is taken instead of the first.
RECURSIVE ScanLastDate(_, _, _)
ScanLastDate(ls, i, j) ==
  IF i > Len(ls) THEN NoHeader
  ELSE IF j > Len(Delimiters) THEN ScanLastDate(ls, i + 1, 1)
  ELSE
    LET parts == SplitLine(ls[i], Delimiters[j])
    IN  IF InList(parts, S_Date)
          THEN LET start == (CHOOSE p \in 1..Len(parts) :
                               parts[p] = S_Date
                               /\ \A q \in (p + 1)..Len(parts) : parts[q] # S_Date) - 1
               IN  [idx       |-> i - 1,
                    header    |-> SubSeq(parts, start + 1, Len(parts)),
                    delimiter |-> Delimiters[j],
                    start_col |-> start]
          ELSE ScanLastDate(ls, i, j + 1)

\* The loops of find_header_index from line i (1-based) and delimiter j on.
RECURSIVE ScanHeader(_, _, _)
ScanHeader(ls, i, j) ==
  IF i > Len(ls) THEN NoHeader
  ELSE IF j > Len(Delimiters) THEN ScanHeader(ls, i + 1, 1)
  ELSE
    LET parts == SplitLine(ls[i], Delimiters[j])
    IN  IF InList(parts, S_Date)
          THEN LET start == ListIndex(parts, S_Date)
               IN  [idx       |-> i - 1,
                    header    |-> SubSeq(parts, start + 1, Len(parts)),
                    delimiter |-> Delimiters[j],
                    start_col |-> start]
          ELSE ScanHeader(ls, i, j + 1)

find_header_index(ls) == ScanHeader(ls, 1, 1)

Min(a, b) == IF a < b THEN a ELSE b

\* [""] * n
EmptyCells(n) == [i \in 1..n |-> <<>>]

\* Mutant: a row shorter than the header is not padded.
BuildRowNoPad(ncols, ln, d, start) ==
  LET parts == SplitLine(ln, d)
  IN  IF Len(parts) > start
        THEN SubSeq(parts, start + 1, Min(start + ncols, Len(parts)))
        ELSE EmptyCells(ncols)

\* One pass of the loop of build_dataframe_from_lines: the row of line ln.
BuildRow(ncols, ln, d, start) ==
  LET parts == SplitLine(ln, d)
      sel   == IF Len(parts) > start
                 THEN SubSeq(parts, start + 1, Min(start + ncols, Len(parts)))
                 ELSE EmptyCells(ncols)
  IN  IF Len(sel) < ncols THEN sel \o EmptyCells(ncols - Len(sel))
      ELSE IF Len(sel) > ncols THEN SubSeq(sel, 1, ncols)
      ELSE sel

build_dataframe_from_lines(hdr, dlines, d, start) ==
  [columns |-> hdr,
   rows    |-> [r \in 1..Len(dlines) |-> BuildRow(Len(hdr), dlines[r], d, start)]]

(***************************************************************************)
(* Column Normalizer.                                                      *)
(***************************************************************************)
UpperCase ==
  <<"A", "B", "C", "D", "E", "F", "G", "H", "I", "J", "K", "L", "M",
    "N", "O", "P", "Q", "R", "S", "T", "U", "V", "W", "X", "Y", "Z">>

LowerCase ==
  <<"a", "b", "c", "d", "e", "f", "g", "h", "i", "j", "k", "l", "m",
    "n", "o", "p", "q", "r", "s", "t", "u", "v", "w", "x", "y", "z">>

\* ch.lower()
Lower(ch) ==
  IF \E i \in 1..26 : UpperCase[i] = ch
    THEN LowerCase[CHOOSE i \in 1..26 : UpperCase[i] = ch]
    ELSE ch

\* ch.isalnum()
IsAlnum(ch) ==
  \/ ch \in Digits
  \/ \E i \in 1..26 : UpperCase[i] = ch \/ LowerCase[i] = ch

\* norm = ''.join(ch.lower() for ch in c if ch.isalnum())
NormName(c) ==
  LET kept == SelectSeq(c, IsAlnum)
  IN  [i \in 1..Len(kept) |-> Lower(kept[i])]

S_time == <<"t", "i", "m", "e">>

\* norm.startswith('time')
IsTimeLike(c) ==
  LET n == NormName(c)
  IN  Len(n) >= Len(S_time) /\ SubSeq(n, 1, Len(S_time)) = S_time

\* find_time_col: the first time-like label in header order, or None.
find_time_col(columns) ==
  IF \E i \in 1..Len(columns) : IsTimeLike(columns[i])
    THEN columns[CHOOSE i \in 1..Len(columns) :
                   IsTimeLike(columns[i])
                   /\ \A j \in 1..(i - 1) : ~IsTimeLike(columns[j])]
    ELSE NoneStr

\* The positions (1-based) of the columns of t that satisfy Keep.
KeptPositions(t, Keep(_)) ==
  SelectSeq([i \in 1..Len(t.columns) |-> i], Keep)

\* The frame made of the columns of t at the positions ps, in that order.
TakeColumns(t, ps) ==
  [columns |-> [j \in 1..Len(ps) |-> t.columns[ps[j]]],
   rows    |-> [r \in 1..Len(t.rows) |->
                  [j \in 1..Len(ps) |-> t.rows[r][ps[j]]]]]

\* df.drop(columns=[c]): every column labelled c goes.
DropLabel(t, c) ==
  TakeColumns(t, KeptPositions(t, LAMBDA i : t.columns[i] # c))

merge_date_time_if_present(t) ==
  IF ~InList(t.columns, S_Date) THEN t
  ELSE
    LET time_col == find_time_col(t.columns)
    IN  IF time_col # NoneStr /\ time_col # <<>> /\ time_col # S_Date
             /\ InList(t.columns, time_col)
          THEN DropLabel(t, time_col)
          ELSE t

(***************************************************************************)
(* Trim Engine.                                                            *)
(***************************************************************************)
\* What iterating over df[c] yields.  A label borne by one column selects a
\* Series, iterated cell by cell; a label borne by several columns selects a
\* DataFrame, and iterating over a DataFrame yields its column labels.
Selected(t, c) ==
  LET ps == KeptPositions(t, LAMBDA i : t.columns[i] = c)
  IN  IF Len(ps) = 1
        THEN [r \in 1..Len(t.rows) |-> t.rows[r][ps[1]]]
        ELSE [j \in 1..Len(ps) |-> c]

\* _to_numeric_series(ser), element by element.
_to_numeric_series(ser) == [i \in 1..Len(ser) |-> ToNumericCell(ser[i])]

\* list(mask[mask].index) for mask = ser_num.notna() & (ser_num != 0), as a set.
TrueIdxs(t, c) ==
  LET ser_num == _to_numeric_series(Selected(t, c))
  IN  {i - 1 : i \in {j \in 1..Len(ser_num) : NonZero(ser_num[j])}}

SetMin(S) == CHOOSE x \in S : \A y \in S : x <= y

SetMax(S) == CHOOSE x \in S : \A y \in S : x >= y

NoTrim(c) == [start |-> -1, end |-> -1, col |-> c]

\* The fallback loop of find_trim_indices_by_offset over df.columns[::-1],
\* from position i (1-based) leftwards.
RECURSIVE ScanFallback(_, _, _)
ScanFallback(t, i, col) ==
  IF i < 1 THEN NoTrim(col)
  ELSE
    LET c == t.columns[i]
    IN  IF c = S_Date THEN ScanFallback(t, i - 1, col)
        ELSE IF TrueIdxs(t, c) # {}
          THEN [start |-> SetMin(TrueIdxs(t, c)),
                end   |-> SetMax(TrueIdxs(t, c)),
                col   |-> c]
          ELSE ScanFallback(t, i - 1, col)

\* Mutant: the window ends at the first qualifying row.
FindTrimFirstOnly(t, off) ==
  IF Len(t.columns) < off THEN NoTrim(NoneStr)
  ELSE
    LET col == t.columns[Len(t.columns) - off + 1]
    IN  IF TrueIdxs(t, col) # {}
          THEN [start |-> SetMin(TrueIdxs(t, col)),
                end   |-> SetMin(TrueIdxs(t, col)),
                col   |-> col]
          ELSE ScanFallback(t, Len(t.columns), col)

\* Mutant: an offset beyond the width falls back to the scan of the columns.
FindTrimFallbackWhenNarrow(t, off) ==
  IF Len(t.columns) < off THEN ScanFallback(t, Len(t.columns), NoneStr)
  ELSE
    LET col == t.columns[Len(t.columns) - off + 1]
    IN  IF TrueIdxs(t, col) # {}
          THEN [start |-> SetMin(TrueIdxs(t, col)),
                end   |-> SetMax(TrueIdxs(t, col)),
                col   |-> col]
          ELSE ScanFallback(t, Len(t.columns), col)

find_trim_indices_by_offset(t, off) ==
  IF Len(t.columns) < off THEN NoTrim(NoneStr)
  ELSE
    LET col == t.columns[Len(t.columns) - off + 1]
    IN  IF TrueIdxs(t, col) # {}
          THEN [start |-> SetMin(TrueIdxs(t, col)),
                end   |-> SetMax(TrueIdxs(t, col)),
                col   |-> col]
          ELSE ScanFallback(t, Len(t.columns), col)

(***************************************************************************)
(* Sampler.                                                                *)
(***************************************************************************)
\* df.iloc[a : b]: rows a .. b-1 (0-based), cut to the rows there are.
ILocSlice(t, a, b) ==
  [columns |-> t.columns,
   rows    |-> SubSeq(t.rows, a + 1, Min(b, Len(t.rows)))]

\* t.iloc[::kk].reset_index(drop=True): rows 0, kk, 2kk, ... renumbered from 0.
Stride(t, kk) ==
  [columns |-> t.columns,
   rows    |-> [i \in 1..((Len(t.rows) + kk - 1) \div kk) |->
                  t.rows[(i - 1) * kk + 1]]]

\* main(): truncated = df.iloc[start_idx : end_idx + 1]; out_df = truncated.iloc[::k]
SampleWindow(t, s, e, kk) == Stride(ILocSlice(t, s, e + 1), kk)

(***************************************************************************)
(* The inputs the specifications draw from.                                *)
(***************************************************************************)
S_x == <<"x">>

S_X == <<"X">>

S_5 == <<"5">>

S_0 == <<"0">>

S_1 == <<"1">>

S_5_2 == <<"5", ".", "2">>

S_Temp == <<"T", "e", "m", "p">>

S_Flow == <<"F", "l", "o", "w">>

S_Time_s == <<"T", "i", "m", "e", "(", "s", ")">>

S_day1 == <<"2", "0", "2", "4", "-", "0", "1", "-", "0", "1">>

S_day2 == <<"2", "0", "2", "4", "-", "0", "1", "-", "0", "2">>

\* d.join(fields)
RECURSIVE Join(_, _)
Join(fields, d) ==
  IF fields = <<>> THEN <<>>
  ELSE IF Len(fields) = 1 THEN fields[1]
  ELSE fields[1] \o <<d>> \o Join(Tail(fields), d)

Quoted(s) == <<"\"">> \o s \o <<"\"">>

\* Lines for the Header Locator and the Table Builder: no 'Date' field, 'Date'
\* under one delimiter only, under several, twice, quoted, padded with blanks,
\* with a quoted delimiter; empty, short and long data lines.
HeaderLines ==
  { <<>>,
    S_x,
    S_Date,
    Join(<<S_x, S_Date>>, ","),
    Join(<<S_Date, S_x, S_x>>, ";"),
    Join(<<S_x, S_Date, S_x>>, "\t"),
    Join(<<Join(<<S_Date, S_x>>, ","), S_Date>>, ";"),
    Join(<<Quoted(S_Date), S_x>>, ","),
    Join(<<<<" ">> \o S_Date \o <<" ">>, <<" ">> \o S_x>>, ","),
    Join(<<S_x, Quoted(Join(<<S_x, S_Date>>, ",")), S_Date>>, ","),
    Join(<<S_Date, S_Date, S_x>>, ","),
    Join(<<S_x, S_x, S_x, S_X>>, ","),
    Join(<<S_x, S_X>>, ";") }

\* The lines of the input files of main(): scenario A of the specification, a
\* line without 'Date', and headers whose labels repeat.
ScenarioA_Header == Join(<<S_Date, S_Temp, S_Flow>>, "\t")

ScenarioA_Row1 == Join(<<S_day1, S_0, S_0>>, "\t")

ScenarioA_Row2 == Join(<<S_day2, S_5_2, S_1>>, "\t")

MainLines ==
  { S_x, ScenarioA_Header, ScenarioA_Row1, ScenarioA_Row2,
    Join(<<S_Date, S_5, S_5>>, "\t"),
    Join(<<S_Date, S_Time_s, S_Time_s>>, "\t") }

\* The contents a file can have: at most n of these lines.
FileContents(n) == StringsUpTo(MainLines, n)

(***************************************************************************)
(* main().                                                                 *)
(***************************************************************************)
OffsetTxt == 2

OffsetHis == 4

S_txt == <<".", "t", "x", "t">>

S_his == <<".", "h", "i", "s">>

S_HIS == <<".", "H", "I", "S">>

\* What get_input_path_from_user returns when nothing was selected.
NoPath == [stem |-> "", ext |-> <<>>]

\* The input files there are, and a path that names no file.
Files == {[stem |-> "log", ext |-> S_txt], [stem |-> "run", ext |-> S_HIS]}

MissingPath == [stem |-> "gone", ext |-> S_txt]

\* What the file dialog, or the fallback glob, can return.
Selectable == Files \cup {MissingPath, NoPath}

\* path.lower().endswith('.his')
EndsWithHis(p) == [i \in 1..Len(p.ext) |-> Lower(p.ext[i])] = S_his

\* df.empty
IsEmptyFrame(t) == Len(t.columns) = 0 \/ Len(t.rows) = 0

\* The checks of main() in the order the code makes them.
AllChecks ==
  <<"selected", "isfile", "read", "header", "data", "nonempty", "trim", "free">>

NormIdle ==
  /\ cell = <<>>
  /\ norm = <<>>
  /\ renorm = <<>>
  /\ num = NaN

HeaderIdle ==
  /\ header_idx = -1
  /\ header = NoneStr
  /\ delimiter = NoneChar
  /\ start_col = -1
  /\ data_lines = <<>>

TrimIdle ==
  /\ offset = 0
  /\ start_idx = -1
  /\ end_idx = -1
  /\ used_col = NoneStr
  /\ out_df = EmptyFrame

\* path = get_input_path_from_user(); the checks of the path
main_select ==
  /\ pc = "start"
  /\ \E p \in Selectable :
       /\ path' = p
       /\ IF p = NoPath
            THEN pc' = "returned" /\ err' = "NoSelection" /\ checks' = checks
            ELSE IF p \notin Files
              THEN pc' = "returned" /\ err' = "FileNotFound"
                   /\ checks' = Append(checks, "selected")
              ELSE pc' = "selected" /\ err' = err
                   /\ checks' = checks \o <<"selected", "isfile">>
  /\ UNCHANGED <<normVars, k, lines, out_file, headerVars, data_lines,
                 frameVars, trimVars, out_df>>

\* k = get_sampling_k(): the dialog enforces minvalue 1, the default is 1
get_sampling_k ==
  /\ pc = "selected"
  /\ k' \in 1..MaxK
  /\ pc' = "sampling"
  /\ UNCHANGED <<normVars, path, lines, out_file, headerVars, data_lines,
                 frameVars, trimVars, out_df, checks, err>>

\* lines = try_read_lines(path): the lines of the file, or IOError when every
\* open() raised
try_read_lines ==
  /\ pc = "sampling"
  /\ \/ /\ lines' \in FileContents(MaxLines)
        /\ pc' = "read"
        /\ checks' = Append(checks, "read")
        /\ err' = err
     \/ /\ lines' = lines
        /\ pc' = "returned"
        /\ checks' = checks
        /\ err' = "UnreadableFile"
  /\ UNCHANGED <<normVars, path, k, out_file, headerVars, data_lines,
                 frameVars, trimVars, out_df>>

\* header_idx, header, delimiter, start_col = find_header_index(lines)
main_find_header ==
  /\ pc = "read"
  /\ LET h == find_header_index(lines)
     IN  /\ header_idx' = h.idx
         /\ header' = h.header
         /\ delimiter' = h.delimiter
         /\ start_col' = h.start_col
         /\ IF h.idx = -1
              THEN pc' = "returned" /\ err' = "HeaderNotFound" /\ checks' = checks
              ELSE pc' = "header" /\ err' = err /\ checks' = Append(checks, "header")
  /\ UNCHANGED <<normVars, fileVars, data_lines, frameVars, trimVars, out_df>>

\* data_lines = lines[header_idx + 1 :]
main_data_lines ==
  /\ pc = "header"
  /\ data_lines' = SubSeq(lines, header_idx + 2, Len(lines))
  /\ IF data_lines' = <<>>
       THEN pc' = "returned" /\ err' = "EmptyAfterHeader" /\ checks' = checks
       ELSE pc' = "data" /\ err' = err /\ checks' = Append(checks, "data")
  /\ UNCHANGED <<normVars, fileVars, headerVars, frameVars, trimVars, out_df>>

\* df = build_dataframe_from_lines(header, data_lines, delimiter, start_col)
main_build ==
  /\ pc = "data"
  /\ raw_df' = build_dataframe_from_lines(header, data_lines, delimiter, start_col)
  /\ pc' = "built"
  /\ UNCHANGED <<normVars, fileVars, headerVars, data_lines, df, trimVars,
                 out_df, checks, err>>

\* df = merge_date_time_if_present(df)
main_merge ==
  /\ pc = "built"
  /\ df' = merge_date_time_if_present(raw_df)
  /\ pc' = "merged"
  /\ UNCHANGED <<normVars, fileVars, headerVars, data_lines, raw_df, trimVars,
                 out_df, checks, err>>

\* if df.empty: return
main_check_empty ==
  /\ pc = "merged"
  /\ IF IsEmptyFrame(df)
       THEN pc' = "returned" /\ err' = "EmptyAfterNormalization" /\ checks' = checks
       ELSE pc' = "nonempty" /\ err' = err /\ checks' = Append(checks, "nonempty")
  /\ UNCHANGED <<normVars, fileVars, headerVars, data_lines, frameVars,
                 trimVars, out_df>>

\* The assignments of a call of find_trim_indices_by_offset(df, off).
SetTrim(off) ==
  LET r == find_trim_indices_by_offset(df, off)
  IN  /\ offset' = off
      /\ start_idx' = r.start
      /\ end_idx' = r.end
      /\ used_col' = r.col

\* offset by file type; start_idx, end_idx, used_col = find_trim_indices_by_offset(...)
main_trim ==
  /\ pc = "nonempty"
  /\ SetTrim(IF EndsWithHis(path) THEN OffsetHis ELSE OffsetTxt)
  /\ IF start_idx' = -1 \/ end_idx' = -1
       THEN pc' = "returned" /\ err' = "NoTrimAnchor" /\ checks' = checks
       ELSE pc' = "trimmed" /\ err' = err /\ checks' = Append(checks, "trim")
  /\ UNCHANGED <<normVars, fileVars, headerVars, data_lines, frameVars, out_df>>

\* truncated = df.iloc[start_idx : end_idx + 1]; out_df = truncated.iloc[::k]...
main_sample ==
  /\ pc = "trimmed"
  /\ out_df' = SampleWindow(df, start_idx, end_idx, k)
  /\ pc' = "sampled"
  /\ UNCHANGED <<normVars, fileVars, headerVars, data_lines, frameVars,
                 trimVars, checks, err>>

\* Mutant: an existing output file does not stop the run.
CheckOutputOverwrites ==
  /\ pc = "sampled"
  /\ pc' = "write" /\ err' = err /\ checks' = Append(checks, "free")
  /\ UNCHANGED <<normVars, fileVars, headerVars, data_lines, frameVars,
                 trimVars, out_df>>

\* if os.path.exists(out_name): return
main_check_output ==
  /\ pc = "sampled"
  /\ IF out_file # "absent"
       THEN pc' = "returned" /\ err' = "OutputAlreadyExists" /\ checks' = checks
       ELSE pc' = "write" /\ err' = err /\ checks' = Append(checks, "free")
  /\ UNCHANGED <<normVars, fileVars, headerVars, data_lines, frameVars,
                 trimVars, out_df>>

\* write_df_to_excel_with_formats(out_name, out_df) inside try/except: the
\* workbook is written, or the writer raised and left nothing or a partial file
main_write ==
  /\ pc = "write"
  /\ \/ out_file' = "new" /\ err' = err
     \/ out_file' \in {"absent", "partial"} /\ err' = "WriteFailure"
  /\ pc' = "returned"
  /\ UNCHANGED <<normVars, path, k, lines, headerVars, data_lines, frameVars,
                 trimVars, out_df, checks>>

(***************************************************************************)
(* Spec: main() from its first statement, on the files above.              *)
(***************************************************************************)
Init ==
  /\ pc = "start"
  /\ NormIdle
  /\ path = NoPath
  /\ k = 1
  /\ lines = <<>>
  /\ out_file \in {"absent", "old"}
  /\ HeaderIdle
  /\ raw_df = EmptyFrame
  /\ df = EmptyFrame
  /\ TrimIdle
  /\ checks = <<>>
  /\ err = ""

Next ==
  \/ main_select
  \/ get_sampling_k
  \/ try_read_lines
  \/ main_find_header
  \/ main_data_lines
  \/ main_build
  \/ main_merge
  \/ main_check_empty
  \/ main_trim
  \/ main_sample
  \/ main_check_output
  \/ main_write

Spec == Init /\ [][Next]_vars

(***************************************************************************)
(* SpecHeader: the ingest steps of main() on the lines of HeaderLines.     *)
(***************************************************************************)
InitHeader ==
  /\ pc = "read"
  /\ NormIdle
  /\ path = [stem |-> "log", ext |-> S_txt]
  /\ k = 1
  /\ lines \in StringsUpTo(HeaderLines, MaxLines)
  /\ out_file = "absent"
  /\ HeaderIdle
  /\ raw_df = EmptyFrame
  /\ df = EmptyFrame
  /\ TrimIdle
  /\ checks = <<"selected", "isfile", "read">>
  /\ err = ""

NextHeader == main_find_header \/ main_data_lines \/ main_build

SpecHeader == InitHeader /\ [][NextHeader]_vars

(***************************************************************************)
(* SpecNorm: the Numeric Normalizer on single cells.                       *)
(***************************************************************************)
CellAlphabet == {"0", "1", ".", ",", " ", "a"}

S_1_234_56 == <<"1", ".", "2", "3", "4", ",", "5", "6">>

S_12_5 == <<"1", "2", ",", "5">>

S_abc == <<"a", "b", "c">>

ScenarioCells == {S_1_234_56, S_12_5, S_abc}

InitNorm ==
  /\ pc = "cell"
  /\ cell \in StringsUpTo(CellAlphabet, MaxLen) \cup ScenarioCells
  /\ norm = <<>>
  /\ renorm = <<>>
  /\ num = NaN
  /\ path = NoPath
  /\ k = 1
  /\ lines = <<>>
  /\ out_file = "absent"
  /\ HeaderIdle
  /\ raw_df = EmptyFrame
  /\ df = EmptyFrame
  /\ TrimIdle
  /\ checks = <<>>
  /\ err = ""

restVars == <<fileVars, headerVars, data_lines, frameVars, trimVars, out_df,
              checks, err>>

\* t = _normalize_number_str(x) on the cell
call_normalize ==
  /\ pc = "cell"
  /\ norm' = _normalize_number_str(cell)
  /\ pc' = "normalized"
  /\ UNCHANGED <<cell, renorm, num, restVars>>

\* _normalize_number_str on its own output
call_renormalize ==
  /\ pc = "normalized"
  /\ renorm' = _normalize_number_str(norm)
  /\ pc' = "renormalized"
  /\ UNCHANGED <<cell, norm, num, restVars>>

\* pd.to_numeric(s, errors='coerce') on the normalized string
call_to_numeric ==
  /\ pc = "normalized"
  /\ num' = to_numeric(norm)
  /\ pc' = "numeric"
  /\ UNCHANGED <<cell, norm, renorm, restVars>>

NextNorm == call_normalize \/ call_renormalize \/ call_to_numeric

SpecNorm == InitNorm /\ [][NextNorm]_vars

(***************************************************************************)
(* SpecTable: the Column Normalizer, the Trim Engine and the Sampler on    *)
(* tables, with every offset from 1 to OffsetHis and every stride to MaxK. *)
(***************************************************************************)
MaxCols == 3

LabelSet == {S_Date, S_Time_s, S_time, S_Temp}

\* Headers for the Trim Engine: distinct labels with and without 'Date', and
\* labels that repeat.
TrimHeaders ==
  { <<S_Date, S_Temp, S_Flow>>,
    <<S_Date, S_5, S_5>>,
    <<S_Date, S_X, S_X>>,
    <<S_Date, S_X>>,
    <<S_Temp, S_Flow>> }

\* The cells a column of a generated table holds: a date in the date column,
\* elsewhere a zero or a nonzero number, and under Temp and Flow also no number.
ColumnCells(c) ==
  IF c = S_Date THEN {S_day1}
  ELSE IF c \in {S_Temp, S_Flow} THEN {S_0, S_5_2, <<>>}
  ELSE {S_0, S_5_2}

RowsOf(h) ==
  {r \in [1..Len(h) -> {S_day1, S_0, S_5_2, <<>>}] :
     \A j \in 1..Len(h) : r[j] \in ColumnCells(h[j])}

\* The tables over TrimHeaders of at most n rows.
TrimTables(n) ==
  UNION {{[columns |-> h, rows |-> rs] : rs \in StringsUpTo(RowsOf(h), n)} :
           h \in TrimHeaders}

\* Tables for the Column Normalizer: every header over LabelSet, and in row r
\* and column c the cell "r.c", so that no two cells of a table are equal.
DigitOf(n) == CHOOSE d \in Digits : DigitVal(d) = n

MarkedTable(h, n) ==
  [columns |-> h,
   rows    |-> [r \in 1..n |-> [c \in 1..Len(h) |-> <<DigitOf(r), ".", DigitOf(c)>>]]]

\* The marked tables of at most w columns and at most n rows.
MergeTables(w, n) ==
  {MarkedTable(h, m) : h \in StringsUpTo(LabelSet, w), m \in 0..n}

\* Scenario A of the specification.
ScenarioA ==
  [columns |-> <<S_Date, S_Temp, S_Flow>>,
   rows    |-> << <<S_day1, S_0, S_0>>, <<S_day2, S_5_2, S_1>> >>]

Tables(w, n) == TrimTables(n) \cup MergeTables(w, n) \cup {ScenarioA}

InitTable ==
  /\ pc = "built"
  /\ NormIdle
  /\ path = [stem |-> "log", ext |-> S_txt]
  /\ k = 1
  /\ lines = <<>>
  /\ out_file = "absent"
  /\ HeaderIdle
  /\ raw_df \in Tables(MaxCols, MaxRows)
  /\ df = EmptyFrame
  /\ TrimIdle
  /\ checks = <<>>
  /\ err = ""

\* find_trim_indices_by_offset(df, offset_from_right=off) for any offset
call_find_trim ==
  /\ pc = "merged"
  /\ \E off \in 1..OffsetHis : SetTrim(off)
  /\ pc' = IF start_idx' = -1 \/ end_idx' = -1 THEN "undefined" ELSE "trimmed"
  /\ UNCHANGED <<normVars, fileVars, headerVars, data_lines, frameVars, out_df,
                 checks, err>>

\* the sampling statements of main() for any stride get_sampling_k can return
call_sample ==
  /\ pc = "trimmed"
  /\ \E kk \in 1..MaxK :
       /\ k' = kk
       /\ out_df' = SampleWindow(df, start_idx, end_idx, kk)
  /\ pc' = "sampled"
  /\ UNCHANGED <<normVars, path, lines, out_file, headerVars, data_lines,
                 frameVars, trimVars, checks, err>>

NextTable == main_merge \/ call_find_trim \/ call_sample

SpecTable == InitTable /\ [][NextTable]_vars

(***************************************************************************)
(* Claims about the Numeric Normalizer (SpecNorm).                         *)
(***************************************************************************)
\* C2: the Numeric Normalizer maps "1.234,56" to 1234.56, "12,5" to 12.5 and
\* "abc" to absent; a value with point thousands separators and a comma decimal
\* marker parses as the number read with the points stripped and the comma as
\* the decimal marker.
ThousandsForm(t) ==
  /\ Count(t, ",") = 1
  /\ Count(t, ".") >= 1
  /\ \A i \in 1..Len(t) : t[i] \in Digits \cup {".", ","}
  /\ \A i, j \in 1..Len(t) : t[i] = "." /\ t[j] = "," => i < j
  /\ \E i \in 1..Len(t) : t[i] \in Digits

C2_ScenarioC ==
  pc = "numeric" =>
    /\ cell = S_1_234_56 => NumEq(num, Number(123456, 2))
    /\ cell = S_12_5 => NumEq(num, Number(125, 1))
    /\ cell = S_abc => ~num.ok
    /\ ThousandsForm(cell) =>
         NumEq(num, to_numeric(ReplaceChar(RemoveChar(cell, "."), ",", ".")))

\* C10: for every string s the normalizer produces, normalizing the normalized s
\* gives the normalized s again; and a value that is already normalized (no
\* comma, nothing to trim) comes back unchanged.
AlreadyNormalized(t) ==
  /\ ~Contains(t, ",")
  /\ t # <<>> => Head(t) \notin Whitespace /\ t[Len(t)] \notin Whitespace

HasDate(line, d) == \E f \in 1..Len(SplitLine(line, d)) : SplitLine(line, d)[f] = S_Date

LineHasDate(line) == \E j \in 1..Len(Delimiters) : HasDate(line, Delimiters[j])

\* C4: find_header_index returns the smallest index of a line with a field
\* "Date" under tab, semicolon or comma, the first of these delimiters that
\* gives such a field on that line, the position of the first such field and the
\* fields from there to the end of the line; when no line has one, the result is
\* not-found and main() returns without building a table.
C4_HeaderLocator ==
  pc # "read" =>
    IF \E i \in 1..Len(lines) : LineHasDate(lines[i])
      THEN \E i \in 1..Len(lines), j \in 1..Len(Delimiters) :
             LET parts == SplitLine(lines[i], Delimiters[j])
             IN  /\ \A i2 \in 1..(i - 1) : ~LineHasDate(lines[i2])
                 /\ HasDate(lines[i], Delimiters[j])
                 /\ \A j2 \in 1..(j - 1) : ~HasDate(lines[i], Delimiters[j2])
                 /\ header_idx = i - 1
                 /\ delimiter = Delimiters[j]
                 /\ start_col \in 0..(Len(parts) - 1)
                 /\ parts[start_col + 1] = S_Date
                 /\ \A f \in 1..start_col : parts[f] # S_Date
                 /\ Len(header) = Len(parts) - start_col
                 /\ \A f \in 1..Len(header) : header[f] = parts[start_col + f]
      ELSE /\ header_idx = -1
           /\ header = NoneStr /\ delimiter = NoneChar /\ start_col = -1
           /\ pc = "returned"
           /\ err = "HeaderNotFound"
           /\ raw_df = EmptyFrame

\* C4 witness: the header is not the first line, tab does not find it, and
\* 'Date' is not its first field.
C4_Witness ==
  /\ pc = "built"
  /\ header_idx = 1
  /\ delimiter = ";"
  /\ start_col = 1
  /\ HasDate(lines[2], ",")

\* C3: the built table has one row per data line, in order, each of exactly
\* len(header) cells: cell j of row r is the trimmed field start_col + j of line
\* r when the line has that field, and the empty string otherwise.
C3_Rectangular ==
  pc = "built" =>
    /\ raw_df.columns = header
    /\ Len(raw_df.rows) = Len(data_lines)
    /\ \A r \in 1..Len(data_lines) :
         LET parts == SplitLine(data_lines[r], delimiter)
         IN  /\ Len(raw_df.rows[r]) = Len(header)
             /\ \A j \in 0..(Len(header) - 1) :
                  raw_df.rows[r][j + 1] =
                    IF start_col + j < Len(parts) THEN parts[start_col + j + 1]
                    ELSE <<>>

\* C3 witness: a table built from a line with too few fields, so padded, and a
\* line with too many, so truncated.
C3_Witness ==
  /\ pc = "built"
  /\ \E r1, r2 \in 1..Len(data_lines) :
       /\ Len(SplitLine(data_lines[r1], delimiter)) < start_col + Len(header)
       /\ Len(SplitLine(data_lines[r2], delimiter)) > start_col + Len(header)

(***************************************************************************)
(* Claims about the Column Normalizer, the Trim Engine and the Sampler     *)
(* (SpecTable).                                                            *)
(***************************************************************************)
Distinct(columns) ==
  \A i, j \in 1..Len(columns) : i # j => columns[i] # columns[j]

\* The rows (0-based) of t whose cell in the column at position p normalizes to
\* a nonzero number.
QualRows(t, p) ==
  {r - 1 : r \in {q \in 1..Len(t.rows) : NonZero(ToNumericCell(t.rows[q][p]))}}

\* The position of the column off-th from the right.
TargetPos(t, off) == Len(t.columns) - off + 1

\* The positions of the columns not labelled 'Date' that have a qualifying row.
FallbackPositions(t) ==
  {p \in 1..Len(t.columns) : t.columns[p] # S_Date /\ QualRows(t, p) # {}}

\* find_trim_indices_by_offset has been called.
TrimDone == offset # 0

\* C1: with distinct column names and 1 <= offset <= number of columns, when the
\* column offset-th from the right has a row that normalizes to a nonzero number,
\* the result is (smallest such row, largest such row, that column); scenario A
\* with offset 2 gives [1, 1] on Temp.
C1_TrimWindow ==
  TrimDone =>
    /\ ( /\ Distinct(df.columns)
         /\ offset \in 1..Len(df.columns)
         /\ QualRows(df, TargetPos(df, offset)) # {} )
       => LET p == TargetPos(df, offset)
          IN  /\ start_idx = SetMin(QualRows(df, p))
              /\ end_idx = SetMax(QualRows(df, p))
              /\ used_col = df.columns[p]
              /\ start_idx <= end_idx
              /\ NonZero(ToNumericCell(df.rows[start_idx + 1][p]))
              /\ NonZero(ToNumericCell(df.rows[end_idx + 1][p]))
    /\ (df = ScenarioA /\ offset = OffsetTxt)
       => start_idx = 1 /\ end_idx = 1 /\ used_col = S_Temp

\* C1 witness: a window on the target column whose inner row holds no nonzero
\* number.
C1_Witness ==
  /\ TrimDone
  /\ Distinct(df.columns)
  /\ offset = OffsetTxt
  /\ Len(df.columns) = 3
  /\ start_idx = 0
  /\ end_idx = 2
  /\ 1 \notin QualRows(df, TargetPos(df, offset))

\* C5 as claimed: an offset beyond the column count makes the Trim Engine scan
\* the columns right to left, skipping Date, and return the first and last
\* qualifying rows of the first column that has one; undefined only if none has.
C5_FallbackWhenNarrow ==
  (TrimDone /\ offset > Len(df.columns)) =>
    IF FallbackPositions(df) # {}
      THEN LET p == SetMax(FallbackPositions(df))
           IN  /\ start_idx = SetMin(QualRows(df, p))
               /\ end_idx = SetMax(QualRows(df, p))
      ELSE start_idx = -1 /\ end_idx = -1

\* C5 as amended: an offset beyond the column count makes the Trim Engine return
\* (None, None, None) at once, whatever the columns hold.
C5_GivesUpWhenNarrow ==
  (TrimDone /\ offset > Len(df.columns)) =>
    /\ start_idx = -1
    /\ end_idx = -1
    /\ used_col = NoneStr
    /\ pc = "undefined"

\* C5 witness: offset 4 on a table of columns Date and X whose X has a nonzero
\* row.
C5_Witness ==
  /\ pc = "undefined"
  /\ offset = OffsetHis
  /\ df.columns = <<S_Date, S_X>>
  /\ QualRows(df, 2) # {}

\* C6: when the target column exists and has no qualifying row, the window is
\* the first and last qualifying rows of the rightmost column not labelled Date
\* that has one, and it is undefined exactly when there is no such column.
C6_FallbackColumn ==
  ( /\ TrimDone
    /\ offset \in 1..Len(df.columns)
    /\ QualRows(df, TargetPos(df, offset)) = {} )
  => IF FallbackPositions(df) # {}
       THEN LET p == SetMax(FallbackPositions(df))
            IN  /\ start_idx = SetMin(QualRows(df, p))
                /\ end_idx = SetMax(QualRows(df, p))
                /\ used_col = df.columns[p]
       ELSE /\ start_idx = -1 /\ end_idx = -1
            /\ pc \in {"undefined", "returned"}
            /\ pc = "returned" => err = "NoTrimAnchor" /\ out_file \in {"absent", "old"}

\* C7: when the header holds Date, the Column Normalizer removes the first
\* time-like column and no other, and keeps every other column with its cells
\* and its place, also when labels repeat; without Date the table is unchanged.
RemovePosition(t, p) ==
  TakeColumns(t, [i \in 1..(Len(t.columns) - 1) |-> IF i < p THEN i ELSE i + 1])

C7_AtMostOneRemoved ==
  pc # "built" =>
    IF /\ InList(raw_df.columns, S_Date)
       /\ \E i \in 1..Len(raw_df.columns) : IsTimeLike(raw_df.columns[i])
      THEN LET p == SetMin({i \in 1..Len(raw_df.columns) :
                              IsTimeLike(raw_df.columns[i])})
           IN  df = RemovePosition(raw_df, p)
      ELSE df = raw_df

\* C8: the sampled output has ceil((end - start + 1) / k) rows, its row i is
\* row start + i*k of the table, and for k = 1 it is the window row for row.
C8_SamplerCoverage ==
  pc = "sampled" =>
    /\ out_df.columns = df.columns
    /\ Len(out_df.rows) = (end_idx - start_idx + 1 + k - 1) \div k
    /\ \A i \in 0..(Len(out_df.rows) - 1) :
         /\ start_idx + i * k + 1 <= Len(df.rows)
         /\ out_df.rows[i + 1] = df.rows[start_idx + i * k + 1]
    /\ k = 1 => out_df.rows = SubSeq(df.rows, start_idx + 1, end_idx + 1)

(***************************************************************************)
(* Claim about main() (Spec).                                              *)
(***************************************************************************)
IsPrefix(a, b) == Len(a) <= Len(b) /\ SubSeq(b, 1, Len(a)) = a

Aborts ==
  {"NoSelection", "FileNotFound", "UnreadableFile", "HeaderNotFound",
   "EmptyAfterHeader", "EmptyAfterNormalization", "NoTrimAnchor",
   "OutputAlreadyExists"}

\* What holds once the write step is reached.
WriteReached ==
  (pc = "write" \/ out_file \in {"new", "partial"} \/ err = "WriteFailure") =>
    /\ checks = AllChecks
    /\ path \in Files
    /\ header_idx >= 0
    /\ data_lines # <<>>
    /\ ~IsEmptyFrame(df)
    /\ start_idx >= 0 /\ end_idx >= 0

\* What holds of a run that ended early.
AbortedRun ==
  err \in Aborts =>
    /\ pc = "returned"
    /\ checks # AllChecks
    /\ out_file \in {"absent", "old"}

\* C9: the write step is reached only after every check has passed, in the
\* order of AllChecks, and the output file changes only in the write step, when
\* there was none; a run that ends early writes nothing and leaves an existing
\* output file as it was.
C9_WriteOnlyAfterChecks ==
  /\ [](IsPrefix(checks, AllChecks) /\ WriteReached /\ AbortedRun)
  /\ [][out_file' # out_file =>
          (pc = "write" /\ checks = AllChecks /\ out_file = "absent")]_vars

\* C9 witness: a run that passed every check and wrote the workbook.
C9_Witness ==
  /\ pc = "returned"
  /\ err = ""
  /\ out_file = "new"
  /\ checks = AllChecks

====
